---- MODULE Spec2Model ----
(***************************************************************************)
(* Model of vercel/resource_project_environment_variables.go: the          *)
(* vercel_project_environment_variables resource.  One resource instance   *)
(* (one project/team pair) is reconciled against a remote set of           *)
(* environment variables through the handlers ModifyPlan, Create, Read,    *)
(* Update and Delete.  The host (Terraform) serialises the handlers and    *)
(* always plans (ModifyPlan) before it applies (Create / Update).          *)
(***************************************************************************)
EXTENDS Integers, Sequences, FiniteSets, TLC

(***************************************************************************)
(* Bounds of the model.                                                    *)
(***************************************************************************)
\* number of identifiers the remote side may hand out
MaxIds == 3
\* number of events the environment injects: edits of the configuration,
\* out-of-band changes of the remote set, remote calls that fail
MaxEvents == 2

KeyOrder == <<"A", "B">>
Keys == { KeyOrder[i] : i \in DOMAIN KeyOrder }
ProjectID == "prj"
TeamID == "team"

Null == "<null>"

\* types.String.ValueString(): the null string reads as "".
ValueString(v) == IF v = Null THEN "" ELSE v

(***************************************************************************)
(* Declared entries (EnvironmentItem as found in the configuration).       *)
(***************************************************************************)
ConfigItems ==
    { [value |-> "x", target |-> {"production"}, custom |-> {}, sensitive |-> FALSE],
      [value |-> "y", target |-> {"production"}, custom |-> {}, sensitive |-> FALSE],
      [value |-> "x", target |-> {"preview"},    custom |-> {}, sensitive |-> FALSE],
      [value |-> "x", target |-> {"production"}, custom |-> {}, sensitive |-> TRUE] }

\* len() of a Go map
len(m) == Cardinality(DOMAIN m)

\* All maps from a subset of the keys to elements of S (a Go map).
MapsTo(S) == UNION { [D -> S] : D \in SUBSET Keys }

\* what the user may declare for a key: anything for "A", one item for "B"
ItemsFor(k) ==
    IF k = "A" THEN ConfigItems
    ELSE { [value |-> "x", target |-> {"production"}, custom |-> {}, sensitive |-> FALSE] }

\* Configurations the user may declare.
Configs == { c \in MapsTo(ConfigItems) : \A k \in DOMAIN c : c[k] \in ItemsFor(k) }

\* Configurations the first plan may find: nothing declared, the key "A"
\* alone, or every key, with the value "x" for production; the user reaches
\* the others by editing.
InitialConfigs ==
    { c \in Configs :
        /\ DOMAIN c \in {{}, {"A"}, Keys}
        /\ \A k \in DOMAIN c : c[k].value = "x" /\ c[k].target = {"production"}
        /\ DOMAIN c = {"A"} => ~ c["A"].sensitive }

\* plaintexts
Values == {"x", "y"}

\* what somebody else may create remotely, and under which keys
ForeignKeys == {"A"}
ForeignItems ==
    { [value |-> "y", target |-> {"production"}, custom |-> {}, sensitive |-> FALSE],
      [value |-> "x", target |-> {"preview"},    custom |-> {}, sensitive |-> FALSE] }

\* The plan of a configuration: value is a write-only attribute of the
\* schema, so the planned object carries it as null.
PlanOf(cfg) == [k \in DOMAIN cfg |-> [cfg[k] EXCEPT !.value = Null]]

(***************************************************************************)
(* sha256.Sum256 and its renderings.  The digest is modelled as an         *)
(* injective function of the plaintext; strings of digest characters are   *)
(* sequences so that quoting and trimming are computed.                    *)
(***************************************************************************)
Sum256(plain) == <<"#", plain>>

\* fmt.Sprintf("%x", hash)
Hex(hash) == hash

\* fmt.Sprintf("\"%x\"", hash)
QuotedHex(hash) == <<"\"">> \o Hex(hash) \o <<"\"">>

RECURSIVE TrimLeft(_, _)
TrimLeft(s, c) == IF s # <<>> /\ Head(s) = c THEN TrimLeft(Tail(s), c) ELSE s

RECURSIVE TrimRight(_, _)
TrimRight(s, c) ==
    IF s # <<>> /\ s[Len(s)] = c THEN TrimRight(SubSeq(s, 1, Len(s) - 1), c) ELSE s

\* strings.Trim(s, cutset) for a one-character cutset
Trim(s, c) == TrimRight(TrimLeft(s, c), c)

\* the key of the private state: prefix + key
Prefix(projectID, teamID) == <<"vercel_env", projectID, teamID>>
PrivateKey(prefix, key) == prefix \o <<key>>

\* req.Private.GetKey; nil is the empty byte string.
GetKey(priv, pk) == IF pk \in DOMAIN priv THEN priv[pk] ELSE <<>>

(***************************************************************************)
(* The remote side.  A remote entry keeps what was written; what a list or *)
(* create response shows of it is computed by Response.                    *)
(***************************************************************************)
isSameStringSet(a, b) == a = b

\* all orders in which the elements of a finite set may be listed
ListsOf(S) ==
    { s \in [1..Cardinality(S) -> S] : \A i, j \in 1..Cardinality(S) : s[i] = s[j] => i = j }

\* what the API shows of a stored entry (client.EnvironmentVariable): no
\* plaintext for a sensitive entry, nor for an entry it did not decrypt; dec
\* is the Decrypted flag the call reports for the entries that are not
\* sensitive, a sensitive entry carries none
Response(e, dec) ==
    [id |-> e.id, key |-> e.key,
     value |-> IF e.type = "sensitive" THEN ""
               ELSE IF dec = "false" THEN "enc:" \o e.value
               ELSE e.value,
     target |-> e.target, custom |-> e.custom,
     type |-> e.type,
     decrypted |-> IF e.type = "sensitive" THEN "nil" ELSE dec]

\* the answers of one call about the entries of S, in every order
Responses(S) ==
    UNION { ListsOf({ Response(e, dec) : e \in S }) : dec \in {"true", "false"} }

RemoteIDs(rem) == { e.id : e \in rem }

(***************************************************************************)
(* suppressWriteOnlyEnvVarUpdates and ModifyPlan: the drift detector.      *)
(***************************************************************************)
\* a detector that trusts any stored digest
HashMatches_AnyStored(storedHash, hash) == Len(storedHash) > 0

\* the condition under which a declared value counts as not changed
HashMatches(storedHash, hash) ==
    Len(storedHash) > 0 /\ Trim(storedHash, "\"") = Hex(hash)

\* the keys whose value path is appended to resp.RequiresReplace
suppressWriteOnlyEnvVarUpdates(cfg, priv) ==
    LET prefix == Prefix(ProjectID, TeamID)
    IN  { key \in DOMAIN cfg :
            ~ HashMatches(GetKey(priv, PrivateKey(prefix, key)),
                          Sum256(ValueString(cfg[key].value))) }

\* ModifyPlan returns before the detector when nothing is declared
ModifyPlanReplace(cfg, priv) ==
    IF DOMAIN cfg = {} THEN {} ELSE suppressWriteOnlyEnvVarUpdates(cfg, priv)

(***************************************************************************)
(* toCreateEnvironmentVariablesRequest and the remote create call.         *)
(***************************************************************************)
toCreateEnvironmentVariablesRequest(envs) ==
    { [key |-> key, value |-> ValueString(envs[key].value),
       target |-> envs[key].target, custom |-> envs[key].custom,
       type |-> IF envs[key].sensitive THEN "sensitive" ELSE "encrypted"]
      : key \in DOMAIN envs }

\* position of a key of the batch among the keys of the batch
Rank(key, ks) == Cardinality({ i \in DOMAIN KeyOrder :
                     /\ KeyOrder[i] \in ks
                     /\ \E j \in DOMAIN KeyOrder : j >= i /\ KeyOrder[j] = key })

\* the entries the remote side stores for a batch: fresh identifiers from
\* first on
Created(request, first) ==
    LET ks == { q.key : q \in request }
    IN  { [id |-> first + Rank(q.key, ks) - 1, key |-> q.key, value |-> q.value,
           target |-> q.target, custom |-> q.custom, type |-> q.type]
          : q \in request }

(***************************************************************************)
(* convertResponseToProjectEnvironmentVariables                            *)
(***************************************************************************)
\* the value recorded for one response entry
ResponseValue(e, environment) ==
    LET fromResponse == IF e.type = "sensitive" THEN Null ELSE e.value
        matching == { key \in DOMAIN environment :
                        /\ key = e.key
                        /\ isSameStringSet(environment[key].target, e.target)
                        /\ isSameStringSet(environment[key].custom, e.custom) }
    IN  IF (e.decrypted = "false" \/ e.type = "sensitive") /\ matching # {}
        THEN environment[e.key].value
        ELSE fromResponse

ResponseItem(e, environment) ==
    [id |-> e.id, value |-> ResponseValue(e, environment), target |-> e.target,
     custom |-> e.custom, sensitive |-> (e.type = "sensitive")]

\* the loop over the response: later entries overwrite earlier ones of the
\* same key, entries whose ID was already seen are skipped
RECURSIVE ResponseLoop(_, _, _, _, _)
ResponseLoop(response, i, environment, env, alreadyPresent) ==
    IF i > Len(response) THEN env
    ELSE LET e == response[i]
         IN  IF e.id \in alreadyPresent
             THEN ResponseLoop(response, i + 1, environment, env, alreadyPresent)
             ELSE ResponseLoop(response, i + 1, environment,
                      [k \in DOMAIN env \cup {e.key} |->
                          IF k = e.key THEN ResponseItem(e, environment) ELSE env[k]],
                      alreadyPresent \cup {e.id})

\* EnvironmentItem.toAttrValue
toAttrValue(item) == item

convertResponseToProjectEnvironmentVariables(response, environment, unchanged) ==
    LET env == ResponseLoop(response, 1, environment, <<>>, {})
    IN  [k \in DOMAIN env \cup DOMAIN unchanged |->
            IF k \in DOMAIN env THEN env[k] ELSE toAttrValue(unchanged[k])]

(***************************************************************************)
(* envVarMatches and the plan of Update.                                   *)
(***************************************************************************)
\* a comparison that never finds the live entry to be the declared one
envVarMatches_Never(key, ee, e) == FALSE

envVarMatches(key, ee, e) ==
    IF key = e.key /\ isSameStringSet(ee.target, e.target)
                   /\ isSameStringSet(ee.custom, e.custom)
    THEN IF e.decrypted = "false" THEN FALSE
         ELSE IF e.type = "sensitive" THEN FALSE
         ELSE IF e.value # ValueString(ee.value) THEN FALSE
         ELSE TRUE
    ELSE FALSE

\* the map built from the listing: the last listed entry of every key
LastByKey(envsFromAPI) ==
    [key \in { envsFromAPI[i].key : i \in DOMAIN envsFromAPI } |->
        envsFromAPI[CHOOSE i \in DOMAIN envsFromAPI :
            /\ envsFromAPI[i].key = key
            /\ \A j \in DOMAIN envsFromAPI : envsFromAPI[j].key = key => j <= i]]

\* first loop: the planned keys the live snapshot does not hold
MissingRemotely(planEnvs, apiMap) == { key \in DOMAIN planEnvs : key \notin DOMAIN apiMap }

\* a second loop without its first branch
RemovedFromConfig_None(stateEnvs, planEnvs) == {}

\* second loop, first branch: recorded keys that are no longer planned
RemovedFromConfig(stateEnvs, planEnvs) == { key \in DOMAIN stateEnvs : key \notin DOMAIN planEnvs }

\* second loop, second branch: recorded and planned keys to be replaced
NeedsReplace(key, stateEnvs, configEnvs, apiMap) ==
    /\ key \in DOMAIN apiMap
    /\ \/ stateEnvs[key].id # apiMap[key].id
       \/ ~ envVarMatches(key, configEnvs[key], apiMap[key])

Replaced(stateEnvs, planEnvs, configEnvs, apiMap) ==
    { key \in DOMAIN stateEnvs \cap DOMAIN planEnvs :
        NeedsReplace(key, stateEnvs, configEnvs, apiMap) }

\* the three maps built by Update
UpdatePlan(stateEnvs, planEnvs, configEnvs, apiMap) ==
    LET removed  == RemovedFromConfig(stateEnvs, planEnvs)
        replaced == Replaced(stateEnvs, planEnvs, configEnvs, apiMap)
        added    == MissingRemotely(planEnvs, apiMap) \cup replaced
    IN  [toAdd     |-> [key \in added |-> configEnvs[key]],
         toRemove  |-> [key \in removed \cup replaced |-> stateEnvs[key]],
         unchanged |-> [key \in DOMAIN stateEnvs \ (removed \cup replaced) |-> stateEnvs[key]]]

\* the private state after the hashes of the declared values are written
WithHashes(priv, prefix, envs, ks) ==
    [pk \in DOMAIN priv \cup { PrivateKey(prefix, k) : k \in ks } |->
        IF \E k \in ks : pk = PrivateKey(prefix, k)
        THEN QuotedHex(Sum256(ValueString(envs[CHOOSE k \in ks : pk = PrivateKey(prefix, k)].value)))
        ELSE priv[pk]]

\* the private state after the hashes of the removed keys are set to nil
WithoutHashes(priv, prefix, ks) ==
    [pk \in DOMAIN priv \ { PrivateKey(prefix, k) : k \in ks } |-> priv[pk]]

(***************************************************************************)
(* State.                                                                  *)
(***************************************************************************)
VARIABLES
    config,          \* the declared variables (req.Config)
    events,          \* edits, out-of-band changes and failed calls so far
    exists,          \* the host holds a resource instance
    tainted,         \* the instance was recorded by a Create that failed
    state,           \* the recorded variables (resp.State), key -> item
    private,         \* the private state of the instance
    remote,          \* the entries the remote side holds
    nextId,          \* the next identifier the remote side assigns
    pc,              \* "idle", "planned" (ModifyPlan has run), "done" (a handler returned)
    op,              \* the handler that ran last
    result,          \* how it ended: "ok", "error", "removed", "none"
    requiresReplace, \* resp.RequiresReplace of the last ModifyPlan
    priorState,      \* req.State of the handler that ran last
    priorPrivate,    \* req.Private of the handler that ran last
    priorRemote,     \* the remote entries when the handler that ran last began
    envsFromAPIMap,  \* Update: the listing by key
    toAdd,           \* Update: the entries to create
    toRemove,        \* Update: the entries to delete
    unchanged,       \* Update: the entries kept
    calls,           \* remote calls and sleeps of the handler that ran last
    written          \* history: the <<key, value>> pairs the create calls of the handlers have stored

vars == <<config, events, exists, tainted, state, private, remote, nextId,
          pc, op, result, requiresReplace, priorState, priorPrivate, priorRemote,
          envsFromAPIMap, toAdd, toRemove, unchanged, calls, written>>

\* the resource instance as the host keeps it
instance == <<exists, tainted, state, private>>
\* the maps of Update
planVars == <<envsFromAPIMap, toAdd, toRemove, unchanged>>

Empty == <<>>

Init ==
    /\ config \in InitialConfigs
    /\ events = 0
    /\ exists = FALSE
    /\ tainted = FALSE
    /\ state = Empty
    /\ private = Empty
    /\ remote = {}
    /\ nextId = 1
    /\ pc = "idle"
    /\ op = "none"
    /\ result = "none"
    /\ requiresReplace = {}
    /\ priorState = Empty
    /\ priorPrivate = Empty
    /\ priorRemote = {}
    /\ envsFromAPIMap = Empty
    /\ toAdd = Empty
    /\ toRemove = Empty
    /\ unchanged = Empty
    /\ calls = <<>>
    /\ written = {}

\* no maps of Update
NoPlan ==
    /\ envsFromAPIMap' = Empty
    /\ toAdd' = Empty
    /\ toRemove' = Empty
    /\ unchanged' = Empty

\* a handler begins: it is handed the state and the private state
Begin ==
    /\ priorState' = state
    /\ priorPrivate' = private
    /\ priorRemote' = remote

\* a handler returns to the host
Return(handler, how) ==
    /\ pc' = "done"
    /\ op' = handler
    /\ result' = how

\* the environment injects an event
Event ==
    /\ events < MaxEvents
    /\ events' = events + 1

\* a remote call fails
Fails == Event

\* an out-of-band change happens
Outside == Event

(***************************************************************************)
(* The host, the user and the outside world.                               *)
(***************************************************************************)
\* the host goes on after a handler returned
Continue ==
    /\ pc = "done"
    /\ pc' = "idle"
    /\ op' = "none"
    /\ result' = "none"
    /\ requiresReplace' = {}
    /\ priorState' = Empty
    /\ priorPrivate' = Empty
    /\ priorRemote' = {}
    /\ calls' = <<>>
    /\ NoPlan
    /\ UNCHANGED <<events, config, instance, remote, nextId>>
    /\ UNCHANGED written

EditConfig ==
    /\ pc = "idle"
    /\ Event
    /\ \E c \in Configs \ {config} : config' = c
    /\ UNCHANGED <<instance, remote, nextId, pc, op, result,
                   requiresReplace, priorState, priorPrivate, priorRemote, planVars, calls>>
    /\ UNCHANGED written

\* somebody deletes a remote entry and creates it again: same content, new ID
ExternalRecreate ==
    /\ pc = "idle"
    /\ Outside
    /\ nextId <= MaxIds
    /\ \E e \in remote : remote' = (remote \ {e}) \cup {[e EXCEPT !.id = nextId]}
    /\ nextId' = nextId + 1
    /\ UNCHANGED <<config, instance, pc, op, result,
                   requiresReplace, priorState, priorPrivate, priorRemote, planVars, calls>>
    /\ UNCHANGED written

\* somebody creates a remote entry the resource does not track
ExternalCreate ==
    /\ pc = "idle"
    /\ Outside
    /\ nextId <= MaxIds
    /\ \E k \in ForeignKeys, item \in ForeignItems :
          remote' = remote \cup Created(toCreateEnvironmentVariablesRequest([j \in {k} |-> item]),
                                        nextId)
    /\ nextId' = nextId + 1
    /\ UNCHANGED <<config, instance, pc, op, result,
                   requiresReplace, priorState, priorPrivate, priorRemote, planVars, calls>>
    /\ UNCHANGED written

\* somebody edits the value of a remote entry in place: the ID stays
ExternalEdit ==
    /\ pc = "idle"
    /\ Outside
    /\ \E e \in remote : \E v \in Values \ {e.value} :
          remote' = (remote \ {e}) \cup {[e EXCEPT !.value = v]}
    /\ UNCHANGED <<config, instance, nextId, pc, op, result,
                   requiresReplace, priorState, priorPrivate, priorRemote, planVars, calls>>
    /\ UNCHANGED written

\* somebody deletes a remote entry
ExternalDelete ==
    /\ pc = "idle"
    /\ Outside
    /\ \E e \in remote : remote' = remote \ {e}
    /\ UNCHANGED <<config, instance, nextId, pc, op, result,
                   requiresReplace, priorState, priorPrivate, priorRemote, planVars, calls>>
    /\ UNCHANGED written

(***************************************************************************)
(* ModifyPlan.  (For a destroy req.Plan.Raw is null and ModifyPlan returns *)
(* at once: Delete below starts without it.)                               *)
(***************************************************************************)
ModifyPlan ==
    /\ pc = "idle"
    /\ requiresReplace' = ModifyPlanReplace(config, private)
    /\ pc' = "planned"
    /\ op' = "ModifyPlan"
    /\ result' = "ok"
    /\ UNCHANGED <<events, config, instance, remote, nextId,
                   priorState, priorPrivate, priorRemote, planVars, calls>>
    /\ UNCHANGED written

(***************************************************************************)
(* Create                                                                  *)
(***************************************************************************)
\* resp.State.RemoveResource, and the end of Delete: the instance is gone,
\* and its private state with it
RemoveResource ==
    /\ exists' = FALSE
    /\ tainted' = FALSE
    /\ state' = Empty
    /\ private' = Empty

GetProjectCall(res) == [op |-> "getProject", res |-> res]
ListCall(res) == [op |-> "list", res |-> res]
CreateCall(keys, res) == [op |-> "create", keys |-> keys, res |-> res]
DeleteCall(key, id, res) == [op |-> "delete", key |-> key, id |-> id, res |-> res]
SleepCall == [op |-> "sleep"]

\* the <<key, value>> pairs a create call that succeeded has stored remotely
WrittenBy(request) == { <<q.key, q.value>> : q \in request }

\* GetProject answers not-found: an error, nothing is recorded
CreateProjectNotFound ==
    /\ pc = "planned"
    /\ ~ exists
    /\ Fails
    /\ Begin
    /\ calls' = <<GetProjectCall("notfound")>>
    /\ Return("Create", "error")
    /\ UNCHANGED <<config, instance, remote, nextId, requiresReplace, planVars>>
    /\ UNCHANGED written

\* the hashes of all declared values are written to the private state
CreateHashes == WithHashes(private, Prefix(ProjectID, TeamID), config, DOMAIN config)

\* the batch is created
CreateOk ==
    /\ pc = "planned"
    /\ ~ exists
    /\ nextId + len(config) - 1 <= MaxIds
    /\ Begin
    /\ LET request == toCreateEnvironmentVariablesRequest(config)
           created == Created(request, nextId)
       IN  /\ remote' = remote \cup created
           /\ \E response \in Responses(created) :
                 state' = convertResponseToProjectEnvironmentVariables(response, config, Empty)
    /\ nextId' = nextId + len(config)
    /\ private' = CreateHashes
    /\ exists' = TRUE
    /\ tainted' = FALSE
    /\ calls' = <<GetProjectCall("ok"), CreateCall(DOMAIN config, "ok")>>
    /\ Return("Create", "ok")
    /\ UNCHANGED <<events, config, requiresReplace, planVars>>
    /\ written' = written \cup WrittenBy(toCreateEnvironmentVariablesRequest(config))

\* the create call fails: the error is added, and the handler goes on with
\* an empty response
CreateFail ==
    /\ pc = "planned"
    /\ ~ exists
    /\ Fails
    /\ Begin
    /\ state' = convertResponseToProjectEnvironmentVariables(<<>>, config, Empty)
    /\ private' = CreateHashes
    /\ exists' = TRUE
    /\ tainted' = TRUE
    /\ calls' = <<GetProjectCall("ok"), CreateCall(DOMAIN config, "error")>>
    /\ Return("Create", "error")
    /\ UNCHANGED <<config, remote, nextId, requiresReplace, planVars>>
    /\ UNCHANGED written

(***************************************************************************)
(* Read                                                                    *)
(***************************************************************************)
existingIDs(existing) == { existing[k].id : k \in DOMAIN existing }

\* the listed entries whose ID is recorded, in the order of the listing
Tracked(envs, ids) == SelectSeq(envs, LAMBDA e : e.id \in ids)

\* an entry has the key, target and custom environments of a recorded entry
Correlates(e, existing) ==
    \E key \in DOMAIN existing :
        /\ key = e.key
        /\ isSameStringSet(existing[key].target, e.target)
        /\ isSameStringSet(existing[key].custom, e.custom)

\* a Read that drops every entry whose ID is not recorded
Correlated_None(envs, ids, existing) == <<>>

\* the listed entries whose ID is not recorded but that correlate
Correlated(envs, ids, existing) ==
    SelectSeq(envs, LAMBDA e : e.id \notin ids /\ Correlates(e, existing))

toUse(envs, existing) ==
    Tracked(envs, existingIDs(existing)) \o Correlated(envs, existingIDs(existing), existing)

\* no recorded ID: nothing to do
ReadNothing ==
    /\ pc = "idle"
    /\ exists
    /\ existingIDs(state) = {}
    /\ Begin
    /\ calls' = <<>>
    /\ Return("Read", "ok")
    /\ UNCHANGED <<events, config, instance, remote, nextId,
                   requiresReplace, planVars>>
    /\ UNCHANGED written

\* the project is gone, and its entries with it: the resource is removed
\* from the state
ReadNotFound ==
    /\ pc = "idle"
    /\ exists
    /\ existingIDs(state) # {}
    /\ Outside
    /\ Begin
    /\ remote' = {}
    /\ RemoveResource
    /\ calls' = <<ListCall("notfound")>>
    /\ Return("Read", "removed")
    /\ UNCHANGED <<config, nextId, requiresReplace, planVars>>
    /\ UNCHANGED written

ReadFail ==
    /\ pc = "idle"
    /\ exists
    /\ existingIDs(state) # {}
    /\ Fails
    /\ Begin
    /\ calls' = <<ListCall("error")>>
    /\ Return("Read", "error")
    /\ UNCHANGED <<config, instance, remote, nextId, requiresReplace, planVars>>
    /\ UNCHANGED written

ReadOk ==
    /\ pc = "idle"
    /\ exists
    /\ existingIDs(state) # {}
    /\ Begin
    /\ \E envs \in Responses(remote) :
          state' = convertResponseToProjectEnvironmentVariables(toUse(envs, state), state, Empty)
    /\ calls' = <<ListCall("ok")>>
    /\ Return("Read", "ok")
    /\ UNCHANGED <<events, config, exists, tainted, private, remote, nextId,
                   requiresReplace, planVars>>
    /\ UNCHANGED written

(***************************************************************************)
(* Update                                                                  *)
(***************************************************************************)
\* the hashes of all declared values are written before the listing
UpdateHashes == WithHashes(private, Prefix(ProjectID, TeamID), config, DOMAIN config)

\* an Update that leaves the hashes of the removed keys in place
UpdatePrivate_KeepsRemoved == UpdateHashes

\* the private state once the three maps are built
UpdatePrivate ==
    WithoutHashes(UpdateHashes, Prefix(ProjectID, TeamID),
                  RemovedFromConfig(state, PlanOf(config)))

\* what DeleteEnvironmentVariable does to the remote set
WithoutID(rem, id) == { e \in rem : e.id # id }

\* a loop that goes on after the call that failed: every entry is deleted
DeleteLoop_GoesOn(removing, ord, n, rem) ==
    [calls  |-> [j \in 1..n |-> DeleteCall(ord[j], removing[ord[j]].id, "ok")],
     remote |-> { e \in rem : e.id \notin { removing[k].id : k \in DOMAIN removing } }]

\* the loop over toRemove, in the order ord of its keys, up to turn n: the
\* calls made and the remote set they leave
RECURSIVE DeleteLoop(_, _, _, _)
DeleteLoop(removing, ord, n, rem) ==
    IF n = 0 THEN [calls |-> <<>>, remote |-> rem]
    ELSE LET before == DeleteLoop(removing, ord, n - 1, rem)
             key    == ord[n]
             id     == removing[key].id
         IN  [calls  |-> Append(before.calls, DeleteCall(key, id,
                            IF id \in RemoteIDs(before.remote) THEN "ok" ELSE "notfound")),
              remote |-> WithoutID(before.remote, id)]

\* a sleep before every create call
SleepBeforeCreate_Always(adding, removing) == len(adding) > 0

\* time.Sleep before the create call
SleepBeforeCreate(adding, removing) == len(adding) > 0 /\ len(removing) > 0

Slept(adding, removing) == IF SleepBeforeCreate(adding, removing) THEN <<SleepCall>> ELSE <<>>

\* an Update that creates before it deletes
Sequence_CreateFirst(deletes, sleep, create) == create \o sleep \o deletes

\* the order of the steps of Update after the maps are built
Sequence(deletes, sleep, create) == deletes \o sleep \o create

\* Update up to the end of the loop over toRemove, for one listing and one
\* order of the loop
Planned(envsFromAPI) ==
    UpdatePlan(state, PlanOf(config), config, LastByKey(envsFromAPI))

SetPlan(plan, envsFromAPI) ==
    /\ envsFromAPIMap' = LastByKey(envsFromAPI)
    /\ toAdd' = plan.toAdd
    /\ toRemove' = plan.toRemove
    /\ unchanged' = plan.unchanged

\* the listing answers not-found: the resource is removed from the state
UpdateNotFound ==
    /\ pc = "planned"
    /\ exists /\ ~ tainted
    /\ Outside
    /\ Begin
    /\ remote' = {}
    /\ RemoveResource
    /\ calls' = <<ListCall("notfound")>>
    /\ Return("Update", "removed")
    /\ UNCHANGED <<config, nextId, requiresReplace, planVars>>
    /\ UNCHANGED written

\* the listing fails: the handler returns, the hashes are already written
UpdateListFail ==
    /\ pc = "planned"
    /\ exists /\ ~ tainted
    /\ Fails
    /\ Begin
    /\ private' = UpdateHashes
    /\ calls' = <<ListCall("error")>>
    /\ Return("Update", "error")
    /\ UNCHANGED <<config, exists, tainted, state, remote, nextId,
                   requiresReplace, planVars>>
    /\ UNCHANGED written

\* a delete call fails in turn n of the loop over toRemove: Update returns
UpdateDeleteFail ==
    /\ pc = "planned"
    /\ exists /\ ~ tainted
    /\ Fails
    /\ Begin
    /\ \E envsFromAPI \in Responses(remote) :
         LET plan == Planned(envsFromAPI)
         IN  /\ SetPlan(plan, envsFromAPI)
             /\ \E ord \in ListsOf(DOMAIN plan.toRemove) : \E n \in DOMAIN ord :
                  LET loop == DeleteLoop(plan.toRemove, ord, n - 1, remote)
                  IN  /\ remote' = loop.remote
                      /\ calls' = <<ListCall("ok")>> \o loop.calls
                                   \o <<DeleteCall(ord[n], plan.toRemove[ord[n]].id, "error")>>
    /\ private' = UpdatePrivate
    /\ Return("Update", "error")
    /\ UNCHANGED <<config, exists, tainted, state, nextId, requiresReplace>>
    /\ UNCHANGED written

\* the create call fails: Update returns, no state is written
UpdateCreateFail ==
    /\ pc = "planned"
    /\ exists /\ ~ tainted
    /\ Fails
    /\ Begin
    /\ \E envsFromAPI \in Responses(remote) :
         LET plan == Planned(envsFromAPI)
         IN  /\ SetPlan(plan, envsFromAPI)
             /\ len(plan.toAdd) > 0
             /\ \E ord \in ListsOf(DOMAIN plan.toRemove) :
                  LET loop == DeleteLoop(plan.toRemove, ord, Len(ord), remote)
                  IN  /\ remote' = loop.remote
                      /\ calls' = <<ListCall("ok")>>
                                   \o Sequence(loop.calls, Slept(plan.toAdd, plan.toRemove),
                                               <<CreateCall(DOMAIN plan.toAdd, "error")>>)
    /\ private' = UpdatePrivate
    /\ Return("Update", "error")
    /\ UNCHANGED <<config, exists, tainted, state, nextId, requiresReplace>>
    /\ UNCHANGED written

\* no call fails: the new state is written
UpdateOk ==
    /\ pc = "planned"
    /\ exists /\ ~ tainted
    /\ Begin
    /\ \E envsFromAPI \in Responses(remote) :
         LET plan == Planned(envsFromAPI)
         IN  /\ SetPlan(plan, envsFromAPI)
             /\ nextId + len(plan.toAdd) - 1 <= MaxIds
             /\ nextId' = nextId + len(plan.toAdd)
             /\ written' = written \cup WrittenBy(toCreateEnvironmentVariablesRequest(plan.toAdd))
             /\ \E ord \in ListsOf(DOMAIN plan.toRemove) :
                  LET loop    == DeleteLoop(plan.toRemove, ord, Len(ord), remote)
                      request == toCreateEnvironmentVariablesRequest(plan.toAdd)
                      created == Created(request, nextId)
                  IN  IF len(plan.toAdd) > 0
                      THEN /\ remote' = loop.remote \cup created
                           /\ calls' = <<ListCall("ok")>>
                                        \o Sequence(loop.calls, Slept(plan.toAdd, plan.toRemove),
                                                    <<CreateCall(DOMAIN plan.toAdd, "ok")>>)
                           /\ \E response \in Responses(created) :
                                state' = convertResponseToProjectEnvironmentVariables(
                                             response, PlanOf(config), plan.unchanged)
                      ELSE /\ remote' = loop.remote
                           /\ calls' = <<ListCall("ok")>>
                                        \o Sequence(loop.calls, Slept(plan.toAdd, plan.toRemove), <<>>)
                           /\ state' = convertResponseToProjectEnvironmentVariables(
                                           <<>>, PlanOf(config), plan.unchanged)
    /\ private' = UpdatePrivate
    /\ Return("Update", "ok")
    /\ UNCHANGED <<events, config, exists, tainted, requiresReplace>>

(***************************************************************************)
(* Delete                                                                  *)
(***************************************************************************)
\* the turns of the loop over the recorded entries that answer without
\* error: the entries before the first one the remote side does not hold
RECURSIVE Found(_, _, _)
Found(existing, ord, rem) ==
    IF ord = <<>> \/ existing[Head(ord)].id \notin RemoteIDs(rem) THEN 0
    ELSE 1 + Found(existing, Tail(ord), WithoutID(rem, existing[Head(ord)].id))

\* every recorded entry is deleted: the instance is gone
DeleteOk ==
    /\ pc = "idle"
    /\ exists
    /\ Begin
    /\ \E ord \in ListsOf(DOMAIN state) :
         /\ Found(state, ord, remote) = Len(ord)
         /\ LET loop == DeleteLoop(state, ord, Len(ord), remote)
            IN  /\ remote' = loop.remote
                /\ calls' = loop.calls
    /\ RemoveResource
    /\ Return("Delete", "ok")
    /\ UNCHANGED <<events, config, nextId, requiresReplace, planVars>>
    /\ UNCHANGED written

\* an entry is not found remotely: as any error of the delete call this
\* ends the handler
DeleteNotFound ==
    /\ pc = "idle"
    /\ exists
    /\ Begin
    /\ \E ord \in ListsOf(DOMAIN state) :
         LET n == Found(state, ord, remote)
         IN  /\ n < Len(ord)
             /\ LET loop == DeleteLoop(state, ord, n + 1, remote)
                IN  /\ remote' = loop.remote
                    /\ calls' = loop.calls
    /\ Return("Delete", "error")
    /\ UNCHANGED <<events, config, instance, nextId, requiresReplace, planVars>>
    /\ UNCHANGED written

\* a delete call fails
DeleteFail ==
    /\ pc = "idle"
    /\ exists
    /\ Fails
    /\ Begin
    /\ \E ord \in ListsOf(DOMAIN state) : \E n \in 1..Len(ord) :
         /\ n <= Found(state, ord, remote) + 1
         /\ LET loop == DeleteLoop(state, ord, n - 1, remote)
            IN  /\ remote' = loop.remote
                /\ calls' = loop.calls \o <<DeleteCall(ord[n], state[ord[n]].id, "error")>>
    /\ Return("Delete", "error")
    /\ UNCHANGED <<config, instance, nextId, requiresReplace, planVars>>
    /\ UNCHANGED written

(***************************************************************************)
(* The system.                                                             *)
(***************************************************************************)
Next ==
    \/ Continue
    \/ EditConfig
    \/ ExternalRecreate
    \/ ExternalCreate
    \/ ExternalEdit
    \/ ExternalDelete
    \/ ModifyPlan
    \/ CreateProjectNotFound
    \/ CreateOk
    \/ CreateFail
    \/ ReadNothing
    \/ ReadNotFound
    \/ ReadFail
    \/ ReadOk
    \/ UpdateNotFound
    \/ UpdateListFail
    \/ UpdateDeleteFail
    \/ UpdateCreateFail
    \/ UpdateOk
    \/ DeleteOk
    \/ DeleteNotFound
    \/ DeleteFail

Spec == Init /\ [][Next]_vars

(***************************************************************************)
(* Vocabulary of the properties.                                           *)
(***************************************************************************)
\* Update has returned after it built toAdd, toRemove and unchanged
UpdatePlanned == pc = "done" /\ op = "Update" /\ calls # <<>> /\ calls[1] = ListCall("ok")

\* Update has returned without error, the new state is written
UpdateSucceeded == UpdatePlanned /\ result = "ok"

\* positions of the calls of one kind in the log of the handler
CallsOf(kind) == { i \in DOMAIN calls : calls[i].op = kind }

\* the digest the code stores for a plaintext
Fingerprint(v) == QuotedHex(Sum256(v))

\* the fingerprint stored for a key
Stored(priv, key) == GetKey(priv, PrivateKey(Prefix(ProjectID, TeamID), key))

\* what the drift detector answers for a key declared with a plaintext
Drifted(priv, key, v) ==
    key \in suppressWriteOnlyEnvVarUpdates(
                [k \in {key} |-> [value |-> v, target |-> {"production"}, custom |-> {},
                                  sensitive |-> FALSE]], priv)

\* the live entries of a key
Live(rem, key) == { e \in rem : e.key = key }

(***************************************************************************)
(* C1.  In an Update whose toRemove and toAdd are both non-empty, every    *)
(* entry of toRemove has had its delete call answered (ok or not-found)    *)
(* before the create call is issued, and no delete call follows the        *)
(* create call.                                                            *)
(***************************************************************************)
C1_DeletesBeforeCreate ==
    (UpdatePlanned /\ len(toAdd) > 0 /\ len(toRemove) > 0) =>
        \A i \in CallsOf("create") :
            /\ \A key \in DOMAIN toRemove :
                  \E j \in CallsOf("delete") :
                      /\ j < i
                      /\ calls[j].key = key
                      /\ calls[j].id = toRemove[key].id
                      /\ calls[j].res \in {"ok", "notfound"}
            /\ \A j \in CallsOf("delete") : j < i

\* an Update that deleted two entries, one of them not found, and then created
C1_Witness ==
    /\ UpdateSucceeded
    /\ len(toAdd) > 0
    /\ len(toRemove) = 2
    /\ CallsOf("create") # {}
    /\ \E j \in CallsOf("delete") : calls[j].res = "notfound"

(***************************************************************************)
(* C2.  After an Update that completes without error every declared key    *)
(* exists remotely with the declared value and targets, and every entry of *)
(* the prior state whose key is no longer declared is absent remotely      *)
(* (read in the claim's favour: no live entry has its key and targets).    *)
(***************************************************************************)
C2_Converges ==
    UpdateSucceeded =>
        /\ \A key \in DOMAIN config :
              \E e \in Live(remote, key) :
                  /\ e.value = config[key].value
                  /\ e.target = config[key].target
                  /\ e.custom = config[key].custom
        /\ \A key \in DOMAIN priorState \ DOMAIN config :
              \A e \in Live(remote, key) :
                  ~ (e.target = priorState[key].target /\ e.custom = priorState[key].custom)

(***************************************************************************)
(* C3.  As claimed: when the declared set equals the prior state, every    *)
(* entry is live under its recorded ID and every stored fingerprint        *)
(* matches, Update plans nothing, for entries of every kind.               *)
(***************************************************************************)
\* the declared set is the prior state
DeclaredIsPrior ==
    /\ DOMAIN config = DOMAIN priorState
    /\ \A key \in DOMAIN config :
          /\ config[key].target = priorState[key].target
          /\ config[key].custom = priorState[key].custom
          /\ config[key].sensitive = priorState[key].sensitive

\* every recorded entry is live under its recorded ID, with the declared content
LiveAsRecorded ==
    \A key \in DOMAIN priorState :
        \E e \in Live(priorRemote, key) :
            /\ e.id = priorState[key].id
            /\ e.value = config[key].value
            /\ e.target = priorState[key].target
            /\ e.custom = priorState[key].custom

\* every stored fingerprint is the digest of the declared value
FingerprintsMatch ==
    \A key \in DOMAIN config : ~ Drifted(priorPrivate, key, config[key].value)

NothingPlanned == toAdd = Empty /\ toRemove = Empty /\ unchanged = priorState

Readable(key) ==
    /\ envsFromAPIMap[key].type # "sensitive"
    /\ envsFromAPIMap[key].decrypted # "false"

OnlyLive == \A key \in DOMAIN priorState : Cardinality(Live(priorRemote, key)) = 1

C4_DriftForcesReplace ==
    UpdatePlanned =>
        \A key \in DOMAIN config \cap DOMAIN priorState :
            Stored(priorPrivate, key) # Fingerprint(config[key].value) =>
                /\ key \in DOMAIN toAdd
                /\ key \in DOMAIN toRemove
                /\ key \notin DOMAIN unchanged

(***************************************************************************)
(* C5.  ModifyPlan flags exactly the declared keys for which the private   *)
(* state holds no digest, or a digest other than that of the declared      *)
(* value.                                                                  *)
(***************************************************************************)
C5_DetectorFlags ==
    (pc = "planned") =>
        requiresReplace =
            { key \in DOMAIN config :
                ~ ( /\ PrivateKey(Prefix(ProjectID, TeamID), key) \in DOMAIN private
                    /\ private[PrivateKey(Prefix(ProjectID, TeamID), key)] # <<>>
                    /\ private[PrivateKey(Prefix(ProjectID, TeamID), key)]
                          = Fingerprint(config[key].value) ) }

\* one key flagged although a digest is stored for it, one key not flagged
C5_Witness ==
    /\ pc = "planned"
    /\ \E key \in requiresReplace : Stored(private, key) # <<>>
    /\ \E key \in DOMAIN config : key \notin requiresReplace

(***************************************************************************)
(* C6.  After a Create or Update that succeeded, the store holds for every *)
(* declared key the digest of its declared value, so that the detector     *)
(* reports the key unchanged for that value and changed for every other;   *)
(* and for every key of the prior state that is no longer declared the     *)
(* fingerprint is cleared, so that the detector reports it changed.        *)
(***************************************************************************)
C6_FingerprintLifecycle ==
    (pc = "done" /\ op \in {"Create", "Update"} /\ result = "ok") =>
        /\ \A key \in DOMAIN config :
              /\ Stored(private, key) = Fingerprint(config[key].value)
              /\ \A v \in Values : Drifted(private, key, v) <=> v # config[key].value
        /\ \A key \in DOMAIN priorState \ DOMAIN config :
              /\ Stored(private, key) = <<>>
              /\ \A v \in Values : Drifted(private, key, v)

\* an Update that re-declared a value and dropped a key
C6_Witness ==
    /\ UpdateSucceeded
    /\ \E key \in DOMAIN config :
          /\ Stored(priorPrivate, key) # <<>>
          /\ Stored(priorPrivate, key) # Stored(private, key)
    /\ \E key \in DOMAIN priorState \ DOMAIN config : Stored(priorPrivate, key) # <<>>

(***************************************************************************)
(* C7.  Update sleeps exactly when toAdd and toRemove are both non-empty:  *)
(* then once, after the last delete call and right before the create call; *)
(* with toRemove or toAdd empty it does not sleep.                         *)
(***************************************************************************)
C7_SettlingDelay ==
    UpdatePlanned =>
        /\ Cardinality(CallsOf("sleep")) <= 1
        /\ \A s \in CallsOf("sleep") :
              /\ len(toAdd) > 0 /\ len(toRemove) > 0
              /\ \A j \in CallsOf("delete") : j < s
              /\ s + 1 \in CallsOf("create")
        /\ \A i \in CallsOf("create") :
              (len(toRemove) > 0) => i - 1 \in CallsOf("sleep")
        /\ (len(toAdd) = 0 \/ len(toRemove) = 0) => CallsOf("sleep") = {}
        /\ (len(toAdd) > 0 /\ len(toRemove) > 0 /\ result = "ok") => CallsOf("sleep") # {}

\* an Update that slept between a delete and the create
C7_Witness ==
    /\ UpdateSucceeded
    /\ CallsOf("sleep") # {}
    /\ CallsOf("delete") # {}

(***************************************************************************)
(* C8.  Every key that is declared and not in the prior state is placed    *)
(* in toAdd, whatever the live snapshot holds.                             *)
(***************************************************************************)
C8_NewKeysAdded ==
    UpdatePlanned =>
        \A key \in DOMAIN config \ DOMAIN priorState :
            key \in DOMAIN toAdd /\ toAdd[key] = config[key]

(***************************************************************************)
(* C9.  For a key that is recorded and declared: if the live snapshot has  *)
(* no entry of the key, or its entry has another ID than the recorded one, *)
(* the prior entry is in toRemove, the declared entry in toAdd, and the    *)
(* key is not in unchanged.                                                *)
(***************************************************************************)
C9_ReplacedWhenNotLive ==
    UpdatePlanned =>
        \A key \in DOMAIN priorState \cap DOMAIN config :
            ( \/ key \notin DOMAIN envsFromAPIMap
              \/ envsFromAPIMap[key].id # priorState[key].id ) =>
                /\ key \in DOMAIN toRemove /\ toRemove[key] = priorState[key]
                /\ key \in DOMAIN toAdd /\ toAdd[key] = config[key]
                /\ key \notin DOMAIN unchanged

(***************************************************************************)
(* C10.  Every key of the prior state that is not declared is in toRemove  *)
(* and neither in toAdd nor in unchanged; with nothing declared toRemove   *)
(* is the prior state, toAdd and unchanged are empty and no create call    *)
(* is issued.                                                              *)
(***************************************************************************)
C10_RemovedKeys ==
    UpdatePlanned =>
        /\ \A key \in DOMAIN priorState \ DOMAIN config :
              /\ key \in DOMAIN toRemove /\ toRemove[key] = priorState[key]
              /\ key \notin DOMAIN toAdd
              /\ key \notin DOMAIN unchanged
        /\ (DOMAIN config = {}) =>
              /\ toRemove = priorState
              /\ toAdd = Empty
              /\ unchanged = Empty
              /\ CallsOf("create") = {}

\* an Update with nothing declared that deleted two recorded entries
C10_Witness ==
    /\ UpdateSucceeded
    /\ DOMAIN config = {}
    /\ len(priorState) = 2
    /\ Cardinality(CallsOf("delete")) = 2

(***************************************************************************)
(* C11.  The three maps built by Update are disjoint: no key of unchanged  *)
(* is a key of toAdd or of toRemove.                                       *)
(***************************************************************************)
C11_PlanDisjoint ==
    UpdatePlanned =>
        /\ DOMAIN unchanged \cap DOMAIN toAdd = {}
        /\ DOMAIN unchanged \cap DOMAIN toRemove = {}

(***************************************************************************)
(* C12.  A delete call answered not-found counts as success in Update and  *)
(* in Delete: when no call of the handler answered with an error, the      *)
(* handler went through all its deletions and reports no error.            *)
(***************************************************************************)
\* no call of the handler answered with an error
NoCallFailed == \A i \in DOMAIN calls : calls[i].op = "sleep" \/ calls[i].res # "error"

\* the keys the handler that ran last had to delete
KeysToDelete == IF op = "Delete" THEN DOMAIN priorState ELSE DOMAIN toRemove

C12_NotFoundIsSuccess ==
    ((UpdatePlanned \/ (pc = "done" /\ op = "Delete")) /\ NoCallFailed) =>
        /\ result = "ok"
        /\ \A key \in KeysToDelete : \E i \in CallsOf("delete") : calls[i].key = key

(***************************************************************************)
(* C13.  When a delete call of Update answers with an error other than     *)
(* not-found, Update reports an error for that key and ID, issues no       *)
(* further delete and no create call, leaves the remote entries it has not *)
(* processed as they were, and leaves the recorded state as it was.        *)
(***************************************************************************)
\* the IDs of the delete calls before position i
DeletedBefore(i) == { calls[j].id : j \in { n \in CallsOf("delete") : n < i } }

C13_DeleteFailureAborts ==
    UpdatePlanned =>
        \A i \in CallsOf("delete") :
            calls[i].res = "error" =>
                /\ result = "error"
                /\ i = Len(calls)
                /\ CallsOf("create") = {}
                /\ calls[i].key \in DOMAIN toRemove
                /\ calls[i].id = toRemove[calls[i].key].id
                /\ remote = { e \in priorRemote : e.id \notin DeletedBefore(i) }
                /\ state = priorState

\* the first of two deletions failed: the other entry was not processed
C13_Witness ==
    /\ UpdatePlanned
    /\ len(toRemove) = 2
    /\ Cardinality(CallsOf("delete")) = 1
    /\ \E i \in CallsOf("delete") : calls[i].res = "error"
    /\ \A key \in DOMAIN toRemove : \E e \in remote : e.id = toRemove[key].id

(***************************************************************************)
(* C14.  When the create call fails, in Create as in Update, the handler   *)
(* reports an error and writes no new recorded state.                      *)
(***************************************************************************)
C14_CreateFailureWritesNothing ==
    (pc = "done" /\ op \in {"Create", "Update"}) =>
        \A i \in CallsOf("create") :
            calls[i].res = "error" =>
                /\ result = "error"
                /\ state = priorState
                /\ (op = "Create" => ~ exists)

(***************************************************************************)
(* Reconciliation re-run: the host goes on applying one and the same       *)
(* configuration.  It creates the instance, then reads and updates again   *)
(* and again; the user does not edit and the instance is not destroyed.    *)
(* Calls of Update may fail and the remote set may change out of band, as  *)
(* long as the event budget lasts.                                         *)
(***************************************************************************)
ReconcileNext ==
    \/ Continue
    \/ ExternalRecreate
    \/ ExternalCreate
    \/ ExternalEdit
    \/ ExternalDelete
    \/ ModifyPlan
    \/ CreateOk
    \/ ReadNothing
    \/ ReadOk
    \/ UpdateListFail
    \/ UpdateDeleteFail
    \/ UpdateCreateFail
    \/ UpdateOk

\* the host keeps running its cycles: it goes on after every handler, plans
\* again and again, reads again and again, and a call that can succeed
\* again and again does succeed
Reconcile ==
    /\ Init
    /\ [][ReconcileNext]_vars
    /\ WF_vars(Continue)
    /\ SF_vars(ModifyPlan)
    /\ WF_vars(CreateOk)
    /\ SF_vars(ReadOk \/ ReadNothing)
    /\ SF_vars(UpdateOk)

\* Update has returned with an error
UpdateAborted == pc = "done" /\ op = "Update" /\ result = "error"

\* Update has succeeded with an empty plan and every declared key is live
\* as declared
Converged ==
    /\ UpdateSucceeded
    /\ toAdd = Empty
    /\ toRemove = Empty
    /\ \A key \in DOMAIN config :
          \E e \in Live(remote, key) :
              /\ e.value = config[key].value
              /\ e.target = config[key].target
              /\ e.custom = config[key].custom

\* the remote side has fewer identifiers left than an Update may need
OutOfIds == nextId + len(config) - 1 > MaxIds

(***************************************************************************)
(* C15.  Once an Update has aborted on a failed call, the cycles that      *)
(* follow (same configuration, no further failure) eventually end in an    *)
(* Update that succeeds with an empty plan while every declared entry is   *)
(* live as declared (or the identifiers of the model run out first).       *)
(***************************************************************************)
C15_ReentrantConvergence == [](UpdateAborted => <>(Converged \/ OutOfIds))

(***************************************************************************)
(* C16.  The plan of Update is a function of the declared set, the prior   *)
(* state and the live snapshot taken as sets: every order in which the     *)
(* snapshot may be listed yields the same toAdd, toRemove and unchanged,   *)
(* also when several live entries have the same key.                       *)
(***************************************************************************)
\* the listings of the snapshot a handler was given, in every order
SnapshotListings(dec) == ListsOf({ Response(e, dec) : e \in priorRemote })

\* the plan Update builds from one listing
PlanFrom(envsFromAPI) ==
    UpdatePlan(priorState, PlanOf(config), config, LastByKey(envsFromAPI))

C16_PlanDeterministic ==
    UpdatePlanned =>
        \A dec \in {"true", "false"} :
            \A l1, l2 \in SnapshotListings(dec) : PlanFrom(l1) = PlanFrom(l2)

(***************************************************************************)
(* C17.  When the live snapshot holds entries whose ID is not recorded but *)
(* whose key, targets and custom environments are those of a recorded      *)
(* entry, Read records one of them, with its new ID, as the entry of that  *)
(* key; and an Update deletes by the recorded IDs, no ID more than once.   *)
(***************************************************************************)
\* Read has listed the entries and written the state
ReadSucceeded == pc = "done" /\ op = "Read" /\ result = "ok" /\ calls = <<ListCall("ok")>>

\* the live entries that are not recorded and stand for the recorded entry of a key
Recreated(key) ==
    { e \in priorRemote :
        /\ e.id \notin existingIDs(priorState)
        /\ e.key = key
        /\ e.target = priorState[key].target
        /\ e.custom = priorState[key].custom }

C17_RecreatedIsAdopted ==
    /\ ReadSucceeded =>
          \A key \in DOMAIN priorState :
              Recreated(key) # {} =>
                  /\ key \in DOMAIN state
                  /\ state[key].id \in { e.id : e \in Recreated(key) }
    /\ UpdatePlanned =>
          \A i, j \in CallsOf("delete") :
              /\ calls[i].id = priorState[calls[i].key].id
              /\ calls[i].id = calls[j].id => i = j

\* Read found the recorded ID gone and its entry live under a new ID
C17_Witness ==
    /\ ReadSucceeded
    /\ \E key \in DOMAIN priorState :
          /\ Recreated(key) # {}
          /\ priorState[key].id \notin RemoteIDs(priorRemote)
          /\ state[key].id # priorState[key].id

(***************************************************************************)
(* C18.  When several live entries stand for one recorded entry, the entry *)
(* Read records for the key is the same for every order in which the       *)
(* snapshot is listed.                                                     *)
(***************************************************************************)
\* the state Read writes for one listing
ReadFrom(envs) ==
    convertResponseToProjectEnvironmentVariables(toUse(envs, priorState), priorState, Empty)

C18_StableTieBreak ==
    ReadSucceeded =>
        \A dec \in {"true", "false"} :
            \A l1, l2 \in SnapshotListings(dec) : ReadFrom(l1) = ReadFrom(l2)

(***************************************************************************)
(* C19.  Every entry Update places in unchanged is in the recorded state   *)
(* after the Update exactly as it was before, and Update issues no delete  *)
(* and no create call for its key.                                         *)
(***************************************************************************)
C19_UnchangedUntouched ==
    UpdatePlanned =>
        \A key \in DOMAIN unchanged :
            /\ key \in DOMAIN state
            /\ state[key] = priorState[key]
            /\ \A i \in CallsOf("delete") : calls[i].key # key
            /\ \A i \in CallsOf("create") : key \notin calls[i].keys

(***************************************************************************)
(* C20.  In the state recorded by Create, Read or Update the value of an   *)
(* entry is never taken from a remote answer: it is the declared value of  *)
(* the key, the value recorded before, or absent.                          *)
(***************************************************************************)
\* the values of a key the handler has locally
LocalValues(key) ==
    {Null} \cup (IF key \in DOMAIN config THEN {config[key].value} ELSE {})
           \cup (IF key \in DOMAIN priorState THEN {priorState[key].value} ELSE {})

C20_ValueNeverFromRemote ==
    (pc = "done" /\ op \in {"Create", "Read", "Update"} /\ result = "ok") =>
        \A key \in DOMAIN state : state[key].value \in LocalValues(key)

(***************************************************************************)
(* C21.  The fingerprint store never runs ahead of the remote state: if    *)
(* the fingerprint stored for a key is the digest of a value, a create     *)
(* call that succeeded has stored an entry of that key with that value.    *)
(* In particular a handler that aborts on a failed call leaves no          *)
(* fingerprint of a value that was not written remotely.                   *)
(***************************************************************************)
C21_FingerprintNotAhead ==
    \A key \in Keys : \A v \in Values :
        Stored(private, key) = Fingerprint(v) => <<key, v>> \in written

(***************************************************************************)
(* C22.  In Update the create call for a key is issued only when no live   *)
(* entry of that key remains remotely: the live snapshot held none, or     *)
(* every live entry of the key was deleted earlier in the same Update.     *)
(* This holds also when the live entry has another ID than the recorded    *)
(* one.                                                                    *)
(***************************************************************************)
\* the entries of a key, with the targets the key is declared for, that are
\* still live when call i of the handler is issued (an entry of the same key
\* for other targets is left out: the remote side keeps both)
RemainsAt(i, key) ==
    { e \in Live(priorRemote, key) :
        /\ e.target = config[key].target
        /\ e.custom = config[key].custom
        /\ ~ \E j \in CallsOf("delete") : j < i /\ calls[j].id = e.id /\ calls[j].res = "ok" }

C22_CreateOnlyWhenNoneLive ==
    UpdatePlanned =>
        \A i \in CallsOf("create") : \A key \in calls[i].keys : RemainsAt(i, key) = {}

(***************************************************************************)
(* C23.  After a successful Read the recorded state consists exactly of    *)
(* the live entries that are tracked by a recorded ID or have the key,     *)
(* targets and custom environments of a prior entry: a prior entry without *)
(* such a live entry is dropped, a foreign live entry is never adopted,    *)
(* the recorded keys after Read are among those before, and a Read of a    *)
(* state that records no ID makes no remote call and leaves the state as   *)
(* it was.                                                                 *)
(***************************************************************************)
\* the live entries Read may record: tracked by a recorded ID, or correlated
Counterparts ==
    { e \in priorRemote : e.id \in existingIDs(priorState) \/ Correlates(e, priorState) }

\* every recorded entry is one of them
OnlyCounterparts ==
    \A key \in DOMAIN state :
        \E e \in Counterparts : e.key = key /\ e.id = state[key].id

\* every one of them is recorded
AllCounterparts ==
    \A e \in Counterparts : e.key \in DOMAIN state /\ state[e.key].id = e.id

\* Read returned at once: the prior state records no ID
ReadReturnedAtOnce ==
    pc = "done" /\ op = "Read" /\ existingIDs(priorState) = {}

C23_ReadRecordsCounterparts ==
    /\ ReadSucceeded =>
          /\ OnlyCounterparts
          /\ AllCounterparts
          /\ DOMAIN state \subseteq DOMAIN priorState
    /\ ReadReturnedAtOnce => calls = <<>> /\ state = priorState

====
